---- MODULE Spec2Model ----
(***************************************************************************)
(* Model of flash.py (Travelbot Flasher): the flash orchestration pipeline *)
(* flash_process / flash_recovery_only, the artifact download routine,     *)
(* the recovery-flash classification and the device listing parser.        *)
(***************************************************************************)
EXTENDS Integers, Sequences, FiniteSets, TLC

(* ---------------------------------------------------------------------- *)
(* Bounds                                                                  *)
(* ---------------------------------------------------------------------- *)
\* longest device listing text (in characters) fed to device_connected
MaxLen == 5
\* most output lines of one recovery-flash tool run
MaxLines == 2
\* pipeline runs started in one behaviour
MaxRuns == 2
\* worker threads alive at once
MaxWorkers == 2

(* ---------------------------------------------------------------------- *)
(* Text: a text is a sequence of one-character strings (or of words and    *)
(* separators for tool output); str.strip and str.splitlines of Python.    *)
(* ---------------------------------------------------------------------- *)
NL == "\n"
TAB == "\t"

IsSpace(c) == c \in {" ", TAB, NL}

RECURSIVE lstrip(_)
lstrip(s) ==
    IF s = <<>> THEN s
    ELSE IF IsSpace(Head(s)) THEN lstrip(Tail(s)) ELSE s

RECURSIVE rstrip(_)
rstrip(s) ==
    IF s = <<>> THEN s
    ELSE IF IsSpace(s[Len(s)]) THEN rstrip(SubSeq(s, 1, Len(s) - 1)) ELSE s

strip(s) == rstrip(lstrip(s))

\* index of the first line break of s, 0 when there is none
FirstBreak(s) ==
    IF \E i \in 1..Len(s) : s[i] = NL
    THEN CHOOSE i \in 1..Len(s) : s[i] = NL /\ \A j \in 1..(i - 1) : s[j] # NL
    ELSE 0

RECURSIVE splitlines(_)
splitlines(s) ==
    IF s = <<>> THEN <<>>
    ELSE LET i == FirstBreak(s)
         IN IF i = 0 THEN <<s>>
            ELSE <<SubSeq(s, 1, i - 1)>> \o splitlines(SubSeq(s, i + 1, Len(s)))

\* '\n'.join(lines)
RECURSIVE join(_)
join(lines) ==
    IF lines = <<>> THEN <<>>
    ELSE IF Len(lines) = 1 THEN lines[1]
    ELSE lines[1] \o <<NL>> \o join(Tail(lines))

\* pat in text (substring test)
Contains(text, pat) ==
    \E i \in 0..(Len(text) - Len(pat)) : SubSeq(text, i + 1, i + Len(pat)) = pat

(* ---------------------------------------------------------------------- *)
(* device_connected: parse of the `adb devices` listing                   *)
(* ---------------------------------------------------------------------- *)
\* characters of a listing: header text, device entry text, blank, tab, break
ListingChars == {"H", "D", " ", TAB, NL}

RECURSIVE TextsUpTo(_)
TextsUpTo(n) ==
    IF n = 0 THEN {<<>>}
    ELSE LET shorter == TextsUpTo(n - 1)
         IN shorter \cup {Append(t, c) : t \in {u \in shorter : Len(u) = n - 1},
                                          c \in ListingChars}

Listings == TextsUpTo(MaxLen)

\* lines[1:]
Rest(lines) == IF lines = <<>> THEN <<>> ELSE Tail(lines)

NonBlank(l) == strip(l) # <<>>

\* device_connected filtering lines instead of lines[1:]
device_connected_no_slice(stdout) ==
    LET lines == splitlines(strip(stdout))
        devices == SelectSeq(lines, NonBlank)
    IN Len(devices) > 0

device_connected(stdout) ==
    LET lines == splitlines(strip(stdout))
        devices == SelectSeq(Rest(lines), NonBlank)
    IN Len(devices) > 0

(* ---------------------------------------------------------------------- *)
(* flash_recovery: classification of one recovery-flash tool run           *)
(* ---------------------------------------------------------------------- *)
SUCCESS_MARKER == <<"RECOVERY", " ", "upload", " ", "successful">>

\* raw lines the tool may print (words and separators, newline-terminated)
ToolLines ==
    { <<"RECOVERY", " ", "upload", " ", "successful", NL>>,
      <<" ", "RECOVERY", " ", "upload", NL>>,
      <<"successful", NL>>,
      <<"recovery", " ", "upload", " ", "successful", NL>>,
      <<"ERROR:", " ", "Protocol", " ", "initialisation", " ", "failed", NL>>,
      <<"ERROR:", " ", "Failed", " ", "to", " ", "receive", " ", "session", " ",
        "end", " ", "confirmation", NL>>,
      <<NL>> }

RECURSIVE SeqsUpTo(_, _)
SeqsUpTo(S, n) ==
    IF n = 0 THEN {<<>>}
    ELSE LET shorter == SeqsUpTo(S, n - 1)
         IN shorter \cup {Append(t, x) : t \in {u \in shorter : Len(u) = n - 1},
                                          x \in S}

ToolOutputs == SeqsUpTo(ToolLines, MaxLines)

ReturnCodes == {0, 1}

\* output_lines: each line of process.stdout, stripped
RECURSIVE output_lines(_)
output_lines(raw) ==
    IF raw = <<>> THEN <<>>
    ELSE <<strip(Head(raw))>> \o output_lines(Tail(raw))

output_text(raw) == join(output_lines(raw))

\* str.lower on one word
LowerWord(w) ==
    CASE w = "RECOVERY" -> "recovery"
      [] w = "ERROR:" -> "error:"
      [] w = "Protocol" -> "protocol"
      [] w = "Failed" -> "failed"
      [] OTHER -> w

\* str.lower
lower(text) == [i \in DOMAIN text |-> LowerWord(text[i])]

PROTOCOL_FAILED == <<"protocol", " ", "initialisation", " ", "failed">>

NO_SESSION_END ==
    <<"failed", " ", "to", " ", "receive", " ", "session", " ", "end", " ",
      "confirmation">>

\* the cable / USB-hub / ModemManager advice appended to the error text
HINT ==
    <<NL, NL, "Gebruik een originele USB-datakabel.", NL,
      "Vermijd USB-hubs, zet het toestel opnieuw in Download Mode", NL,
      "en stop eventueel ModemManager: sudo systemctl stop ModemManager">>

\* show_error('Flash Failed', ...) was not called
NotShown == [called |-> FALSE, text |-> <<>>]

\* the text flash_recovery passes to show_error('Flash Failed', ...)
flash_recovery_error(returncode, raw) ==
    LET text == output_text(raw)
    IN IF returncode # 0
       THEN [called |-> TRUE,
             text |-> IF \/ Contains(lower(text), PROTOCOL_FAILED)
                         \/ Contains(lower(text), NO_SESSION_END)
                      THEN text \o HINT
                      ELSE text]
       ELSE IF ~Contains(text, SUCCESS_MARKER)
            THEN [called |-> TRUE, text |-> text]
            ELSE NotShown

\* flash_recovery trusting the exit status alone
flash_recovery_exit_only(returncode, raw) == returncode = 0

\* the value flash_recovery returns
flash_recovery(returncode, raw) ==
    IF returncode # 0 THEN FALSE
    ELSE IF ~Contains(output_text(raw), SUCCESS_MARKER) THEN FALSE
    ELSE TRUE

(* ---------------------------------------------------------------------- *)
(* Program constants                                                       *)
(* ---------------------------------------------------------------------- *)
\* the key load_profile looks up in device_config.json
PROFILE_KEY == "SM-J320FN"

\* URLs are <<host, final path segment>>
TWRP_URL == <<"eu.dl.twrp.me", "twrp-3.7.0_9-0-j3lte.img">>
MAGISK_URL == <<"github.com", "Magisk-v23.0.zip">>

\* URLs a device profile may name
ProfileURLs == { <<"a.example", "twrp.img">>,
                 <<"a.example", "lineage.zip">>,
                 <<"b.example", "twrp.img">> }

URLs == ProfileURLs \cup {TWRP_URL, MAGISK_URL}

\* Path(url).name
Name(url) == url[2]

CACHE_DIR == "cache"

\* CACHE_DIR / Path(url).name
CachePath(url) == <<CACHE_DIR, Name(url)>>

TWRP_IMG == <<".", "twrp-j3lte.img">>
DOWNLOADS_DIR == "downloads"
MAGISK_ZIP == <<DOWNLOADS_DIR, "Magisk-v23.0.zip">>

Files == {CachePath(u) : u \in ProfileURLs} \cup {TWRP_IMG, MAGISK_ZIP}

NoUrl == <<>>

\* a file of the working directory: absent, or written from a URL, fully or not
Absent == [present |-> FALSE, src |-> NoUrl, complete |-> FALSE]

FileStates ==
    {Absent} \cup [present : {TRUE}, src : URLs, complete : BOOLEAN]

\* Python's None
None == [none |-> TRUE]

\* profiles an operator may have written: distinct artifacts, a second host
\* serving a file of the same name, and two artifacts sharing one file name
Profiles ==
    { [recovery_url |-> <<"a.example", "twrp.img">>,
       rom_url |-> <<"a.example", "lineage.zip">>],
      [recovery_url |-> <<"b.example", "twrp.img">>,
       rom_url |-> <<"a.example", "lineage.zip">>],
      [recovery_url |-> <<"a.example", "twrp.img">>,
       rom_url |-> <<"b.example", "twrp.img">>] }

\* device_config.json: missing, or a mapping from model keys to profiles
\* (valid: the file parses as JSON)
Configs ==
    { [exists |-> FALSE, valid |-> FALSE, data |-> <<>>],
      [exists |-> TRUE, valid |-> FALSE, data |-> <<>>],
      [exists |-> TRUE, valid |-> TRUE, data |-> <<>>] }
    \cup { [exists |-> TRUE, valid |-> TRUE, data |-> [k \in {PROFILE_KEY} |-> p]] :
             p \in Profiles }

NoConfig == [exists |-> FALSE, valid |-> FALSE, data |-> <<>>]

\* an exception propagating out of a call
Raised == [raised |-> TRUE]

\* dict.get(key): None when the key is missing
Get(data, key) == IF key \in DOMAIN data THEN data[key] ELSE None

\* load_profile without the Path(CONFIG_FILE).exists() test: open() raises
load_profile_no_exists_test(config) ==
    IF ~config.exists THEN Raised
    ELSE IF ~config.valid THEN Raised
    ELSE Get(config.data, PROFILE_KEY)

load_profile(config) ==
    IF ~config.exists THEN None
    ELSE IF ~config.valid THEN Raised
    ELSE Get(config.data, PROFILE_KEY)

\* `not profile`
Falsy(profile) == profile = None

(* ---------------------------------------------------------------------- *)
(* State                                                                   *)
(* ---------------------------------------------------------------------- *)
VARIABLES
    pc,              \* position of the pipeline worker in its entry function
    entry,           \* the function the front-end started
    apk_path,        \* apk_path argument of flash_process ("" when None)
    runs,            \* pipeline runs started so far
    adbOnPath,       \* shutil.which(ADB_NAME) finds adb
    localAdb,        \* platform-tools/adb exists
    heimdallOnPath,  \* heimdall can be executed
    bootloaderLocked,\* the attached device's bootloader is locked
    config,          \* device_config.json as load_profile found it in this run
    profile,         \* value load_profile returned in this run
    fs,              \* artifact files on disk
    stdout,          \* stdout of the last `adb devices`
    gate,            \* what device_connected returned in this run
    toolrun,         \* exit status and raw output of the last heimdall run
    flashRes,        \* outcome of flash_recovery in this run
    dl,              \* outcome of download_file per artifact in this run
    calls,           \* external invocations issued in this run, per kind
    started,         \* steps of this run in the order they were called
    result,          \* how this run ended
    netReq,          \* HTTP requests issued per URL, over all runs
    firstFetch,      \* outcome of the first download_file call per URL
    toolsZip,        \* platform-tools.zip is left in the working directory
    prov,            \* how download_platform_tools ended in this run
    isWindows,       \* IS_WINDOWS
    answer,          \* reply to the 'Install Heimdall' question in this run
    apt,             \* how the apt install attempt ended in this run
    heimdallRet,     \* value ensure_heimdall returned in this run
    shown,           \* text of the last show_error('Flash Failed', ...)
    props,           \* model properties of the attached device
    wpc,             \* position of each worker thread the front-end spawned
    wjob,            \* the start_* function that spawned each worker thread
    wtodo,           \* URLs each worker thread has still to download
    visible,         \* progress.isVisible()
    checks           \* how `heimdall version` / `heimdall detect` ended in this run

vars == <<pc, entry, apk_path, runs, adbOnPath, localAdb, heimdallOnPath,
          bootloaderLocked, config, profile, fs, stdout, gate, toolrun, flashRes, dl,
          calls, started, result, netReq, firstFetch, toolsZip, prov,
          isWindows, answer, apt, heimdallRet, shown, props,
          wpc, wjob, wtodo, visible, checks>>

env == <<adbOnPath, heimdallOnPath, bootloaderLocked>>
args == <<entry, apk_path, runs>>
hist == <<netReq, firstFetch>>
provv == <<toolsZip, prov>>
hv == <<isWindows, answer, apt, heimdallRet>>
aux == <<provv, hv, shown, checks>>
gui == <<wpc, wjob, wtodo, visible>>
fixed == <<props, gui>>

Ops == {"get_platform_tools", "devices", "load_profile", "get_recovery",
        "get_rom", "get_twrp", "get_magisk", "heimdall_version",
        "heimdall_detect", "heimdall_flash", "reboot_recovery",
        "wait_for_device", "sideload", "install", "apt_install",
        "push"}

Roles == {"recovery", "rom", "twrp", "magisk"}

NoCalls == [o \in Ops |-> 0]
NoDl == [r \in Roles |-> "none"]
NoRun == [returncode |-> 0, raw |-> <<>>]
\* a heimdall check: not run, binary not found, exit 0, other exit code
CheckResults == {"none", "missing", "ok", "failed"}
Exit(returncode) == IF returncode = 0 THEN "ok" ELSE "failed"
NoChecks == [version |-> "none", detect |-> "none"]

Count(op) == [calls EXCEPT ![op] = @ + 1]

\* the primary and the secondary model property of the attached device
DeviceProps ==
    { [primary |-> "SM-J320FN", secondary |-> ""],
      [primary |-> "", secondary |-> "SM-J320FN"],
      [primary |-> "SM-OTHER", secondary |-> ""],
      [primary |-> "", secondary |-> ""] }

NormalDevice == [primary |-> "SM-J320FN", secondary |-> ""]

\* slots for the threads threading.Thread(...).start() creates
Workers == 1..MaxWorkers

\* the start_* functions the buttons of MainWindow are connected to
Jobs == {"start_flash", "start_flash_recovery", "start_auto_flash",
         "start_install_tools"}

PipelineInit ==
    /\ pc = "idle"
    /\ entry = "flash_process"
    /\ apk_path = ""
    /\ runs = 0
    /\ localAdb \in BOOLEAN
    /\ bootloaderLocked = FALSE
    /\ profile = None
    /\ fs = [f \in Files |-> Absent]
    /\ gate = "unchecked"
    /\ flashRes = "none"
    /\ dl = NoDl
    /\ calls = NoCalls
    /\ started = <<>>
    /\ result = "none"
    /\ netReq = [u \in URLs |-> 0]
    /\ firstFetch = [u \in URLs |-> "none"]
    /\ toolsZip = FALSE
    /\ prov = "none"
    /\ answer = "none"
    /\ apt = "none"
    /\ heimdallRet = "none"
    /\ shown = NotShown
    /\ checks = NoChecks
    /\ wpc = [w \in Workers |-> "idle"]
    /\ wjob = [w \in Workers |-> "none"]
    /\ wtodo = [w \in Workers |-> <<>>]
    /\ visible = FALSE

Init ==
    /\ PipelineInit
    /\ config = NoConfig
    /\ props = NormalDevice
    /\ isWindows = FALSE
    /\ adbOnPath \in BOOLEAN
    /\ heimdallOnPath \in BOOLEAN
    /\ stdout = <<>>
    /\ toolrun = NoRun

(* ---------------------------------------------------------------------- *)
(* Inputs of the pipeline steps                                            *)
(* ---------------------------------------------------------------------- *)
\* listings `adb devices` prints during a pipeline run
GateOutputs ==
    { <<>>,
      <<"H", NL>>,
      <<"H", NL, "D", TAB, "D", NL>>,
      <<NL, "H", NL, " ", NL>> }

\* tool runs of heimdall during a pipeline run
PipelineToolRuns ==
    [returncode : ReturnCodes,
     raw : { <<>>,
             << <<"RECOVERY", " ", "upload", " ", "successful", NL>> >>,
             << <<"ERROR:", " ", "Protocol", " ", "initialisation", " ", "failed", NL>> >> }]

\* how one HTTP download can end: complete, non-200 status, transport error
\* before any byte is written, transport error after the file was opened
DownloadOutcomes == {"ok", "status", "transport", "midstream"}

ApkPaths == {"", "travelbot.apk"}

Entries == {"flash_process", "flash_recovery_only", "auto_flash_j3",
            "flash_twrp_gui", "download_magisk", "push_magisk"}

\* first statement of each entry function
FirstPc(e) ==
    CASE e = "flash_process" -> "ensure_adb"
      [] e = "flash_recovery_only" -> "ensure_adb"
      [] e = "auto_flash_j3" -> "check_heimdall"
      [] e = "flash_twrp_gui" -> "check_heimdall"
      [] e = "download_magisk" -> "download_magisk"
      [] e = "push_magisk" -> "ensure_adb"
      [] e = "install_tools" -> "ensure_adb"

(* ---------------------------------------------------------------------- *)
(* Steps of flash_process / flash_recovery_only                            *)
(* ---------------------------------------------------------------------- *)
\* an exception leaves the entry function (through its `except Exception`
\* clause where it has one)
Except ==
    /\ pc' = "done"
    /\ result' = "error"

\* a front-end starts one run of the entry function e
StartRun(e, a) ==
    /\ pc \in {"idle", "done"}
    /\ runs < MaxRuns
    /\ e # "flash_process" => a = ""
    /\ pc' = FirstPc(e)
    /\ entry' = e
    /\ apk_path' = a
    /\ runs' = runs + 1
    /\ bootloaderLocked' \in BOOLEAN
    /\ config' = NoConfig
    /\ profile' = None
    /\ stdout' = <<>>
    /\ gate' = "unchecked"
    /\ toolrun' = NoRun
    /\ flashRes' = "none"
    /\ dl' = NoDl
    /\ calls' = NoCalls
    /\ started' = <<>>
    /\ result' = "running"
    /\ prov' = "none"
    /\ answer' = "none"
    /\ apt' = "none"
    /\ heimdallRet' = "none"
    /\ shown' = NotShown
    /\ checks' = NoChecks
    /\ UNCHANGED <<adbOnPath, localAdb, heimdallOnPath, fs, hist, toolsZip,
                   isWindows, fixed>>

\* how download_platform_tools can end: tools ready, non-200 status,
\* transport error before the archive is opened, transport error while the
\* archive is written, archive written but not extractable
ProvisionOutcomes == {"ok", "status", "transport", "midstream", "extract"}

\* platform-tools.zip after the attempt: unlinked on success, left behind
\* once it was opened for writing
ZipAfter(o) ==
    IF o = "ok" THEN FALSE
    ELSE IF o \in {"midstream", "extract"} THEN TRUE
    ELSE toolsZip

\* what follows ensure_adb(...) in the entry function
AfterEnsureAdb ==
    IF entry = "install_tools" THEN "ensure_heimdall" ELSE "device_connected"

\* ensure_adb downloading the platform tools without looking for adb first
EnsureAdb_always_download ==
    /\ pc = "ensure_adb"
    /\ started' = Append(started, "ensure_adb")
    /\ calls' = Count("get_platform_tools")
    /\ prov' = "ok"
    /\ localAdb' = TRUE
    /\ pc' = AfterEnsureAdb
    /\ UNCHANGED <<toolsZip, result>>
    /\ UNCHANGED <<args, fixed, hv, shown, checks, adbOnPath, heimdallOnPath, bootloaderLocked, config,
                   profile, fs, stdout, gate, toolrun, flashRes, dl, hist>>

\* ensure_adb logging a failed download_platform_tools and returning
EnsureAdb_no_raise ==
    /\ pc = "ensure_adb"
    /\ started' = Append(started, "ensure_adb")
    /\ IF adbOnPath \/ localAdb
       THEN /\ pc' = AfterEnsureAdb
            /\ UNCHANGED <<localAdb, toolsZip, prov, calls>>
       ELSE /\ calls' = Count("get_platform_tools")
            /\ \E o \in ProvisionOutcomes :
                 /\ prov' = o
                 /\ localAdb' = (o = "ok")
                 /\ toolsZip' = ZipAfter(o)
                 /\ pc' = AfterEnsureAdb
    /\ UNCHANGED <<args, fixed, hv, shown, checks, adbOnPath, heimdallOnPath, bootloaderLocked, config,
                   profile, fs, stdout, gate, toolrun, flashRes, dl, hist, result>>

\* ensure_adb, with download_platform_tools
EnsureAdb ==
    /\ pc = "ensure_adb"
    /\ started' = Append(started, "ensure_adb")
    /\ IF adbOnPath \/ localAdb
       THEN /\ pc' = AfterEnsureAdb
            /\ UNCHANGED <<localAdb, toolsZip, prov, calls, result>>
       ELSE /\ calls' = Count("get_platform_tools")
            /\ \E o \in ProvisionOutcomes :
                 /\ prov' = o
                 /\ localAdb' = (o = "ok")
                 /\ toolsZip' = ZipAfter(o)
                 /\ IF o = "ok"
                    THEN /\ pc' = AfterEnsureAdb
                         /\ UNCHANGED result
                    ELSE Except
    /\ UNCHANGED <<args, fixed, hv, shown, checks, adbOnPath, heimdallOnPath, bootloaderLocked, config,
                   profile, fs, stdout, gate, toolrun, flashRes, dl, hist>>

\* adb_command can start the binary it resolved
AdbPathExists == adbOnPath \/ localAdb

\* what follows a passed device_connected() test in the entry function
AfterGate ==
    IF entry = "push_magisk" THEN "magisk_exists" ELSE "load_profile"

\* `if not device_connected(): log(...); return`, with the test dropped
DeviceGate_no_return ==
    /\ pc = "device_connected"
    /\ started' = Append(started, "device_connected")
    /\ calls' = Count("devices")
    /\ \E out \in GateOutputs :
         /\ stdout' = out
         /\ gate' = IF device_connected(out) THEN "connected" ELSE "absent"
         /\ pc' = AfterGate
         /\ UNCHANGED result
    /\ UNCHANGED <<args, fixed, aux, env, localAdb, config, profile, fs, toolrun, flashRes, dl, hist>>

\* `if not device_connected(): log(...); return`
DeviceGate ==
    /\ pc = "device_connected"
    /\ started' = Append(started, "device_connected")
    /\ calls' = Count("devices")
    /\ IF ~AdbPathExists
       THEN /\ Except
            /\ UNCHANGED <<stdout, gate>>
       ELSE \E out \in GateOutputs :
              /\ stdout' = out
              /\ IF device_connected(out)
                 THEN /\ gate' = "connected"
                      /\ pc' = AfterGate
                      /\ UNCHANGED result
                 ELSE /\ gate' = "absent"
                      /\ pc' = "done"
                      /\ result' = "no_device"
    /\ UNCHANGED <<args, fixed, aux, env, localAdb, config, profile, fs, toolrun, flashRes, dl, hist>>

\* `profile = load_profile(); if not profile: log(...); return`
ProfileResolve ==
    /\ pc = "load_profile"
    /\ started' = Append(started, "load_profile")
    /\ calls' = Count("load_profile")
    /\ \E c \in Configs :
         LET p == load_profile(c)
         IN IF p = Raised
            THEN /\ Except
                 /\ config' = c
                 /\ UNCHANGED profile
            ELSE /\ config' = c
                 /\ profile' = p
                 /\ IF Falsy(p)
                    THEN /\ pc' = "done"
                         /\ result' = "no_profile"
                    ELSE /\ pc' = "dl_recovery"
                         /\ UNCHANGED result
    /\ UNCHANGED <<args, fixed, aux, env, localAdb, fs, stdout, gate, toolrun, flashRes, dl,
                   hist>>

\* the file open(dest, 'wb') and the chunk loop leave behind
Written(url, outcome) ==
    [present |-> TRUE, src |-> url, complete |-> (outcome = "ok")]

FirstOutcome(url, outcome) ==
    IF firstFetch[url] = "none" THEN [firstFetch EXCEPT ![url] = outcome]
    ELSE firstFetch

\* a transfer that clears the artifact files when the download fails
Transfer_cleanup(url, dest, role, op, next) ==
    /\ calls' = Count(op)
    /\ netReq' = [netReq EXCEPT ![url] = @ + 1]
    /\ \E o \in DownloadOutcomes :
         /\ dl' = [dl EXCEPT ![role] = o]
         /\ firstFetch' = FirstOutcome(url, o)
         /\ fs' = IF o = "ok"
                  THEN [fs EXCEPT ![dest] = Written(url, o)]
                  ELSE [f \in Files |-> Absent]
         /\ IF o = "ok"
            THEN /\ pc' = next
                 /\ UNCHANGED result
            ELSE Except

\* one HTTP GET of download_file and what follows it
Transfer(url, dest, role, op, next) ==
    /\ calls' = Count(op)
    /\ netReq' = [netReq EXCEPT ![url] = @ + 1]
    /\ \E o \in DownloadOutcomes :
         /\ dl' = [dl EXCEPT ![role] = o]
         /\ firstFetch' = FirstOutcome(url, o)
         /\ fs' = IF o \in {"ok", "midstream"}
                  THEN [fs EXCEPT ![dest] = Written(url, o)]
                  ELSE fs
         /\ IF o = "ok"
            THEN /\ pc' = next
                 /\ UNCHANGED result
            ELSE Except

\* download_file without the `if dest.exists(): return` test
download_file_no_exists_test(url, dest, role, op, next) ==
    Transfer(url, dest, role, op, next)

\* download_file swallowing a failed download instead of raising
download_file_no_raise(url, dest, role, op, next) ==
    IF fs[dest].present
    THEN /\ dl' = [dl EXCEPT ![role] = "skipped"]
         /\ firstFetch' = FirstOutcome(url, "skipped")
         /\ pc' = next
         /\ UNCHANGED <<fs, netReq, calls, result>>
    ELSE /\ calls' = Count(op)
         /\ netReq' = [netReq EXCEPT ![url] = @ + 1]
         /\ \E o \in DownloadOutcomes :
              /\ dl' = [dl EXCEPT ![role] = o]
              /\ firstFetch' = FirstOutcome(url, o)
              /\ fs' = IF o \in {"ok", "midstream"}
                       THEN [fs EXCEPT ![dest] = Written(url, o)]
                       ELSE fs
              /\ pc' = next
              /\ UNCHANGED result

\* download_file(url, dest, text), called for the artifact `role`
download_file(url, dest, role, op, next) ==
    IF fs[dest].present
    THEN /\ dl' = [dl EXCEPT ![role] = "skipped"]
         /\ firstFetch' = FirstOutcome(url, "skipped")
         /\ pc' = next
         /\ UNCHANGED <<fs, netReq, calls, result>>
    ELSE Transfer(url, dest, role, op, next)

\* what follows the recovery download in the entry function
AfterRecovery == IF entry = "flash_process" THEN "dl_rom" ELSE "flash_recovery"

\* download_file(profile['recovery_url'], recovery_img, text_widget)
DownloadRecovery ==
    /\ pc = "dl_recovery"
    /\ started' = Append(started, "download_recovery")
    /\ download_file(profile.recovery_url, CachePath(profile.recovery_url),
                     "recovery", "get_recovery", AfterRecovery)
    /\ UNCHANGED <<args, fixed, aux, env, localAdb, config, profile, stdout, gate, toolrun, flashRes>>

\* download_file(profile['rom_url'], rom_zip, text_widget)
DownloadRom ==
    /\ pc = "dl_rom"
    /\ started' = Append(started, "download_rom")
    /\ download_file(profile.rom_url, CachePath(profile.rom_url),
                     "rom", "get_rom", "flash_recovery")
    /\ UNCHANGED <<args, fixed, aux, env, localAdb, config, profile, stdout, gate, toolrun, flashRes>>

\* flash_process calling download_file for the ROM after flash_recovery
AfterFlash_rom_late ==
    CASE entry = "flash_process" -> "dl_rom"
      [] entry = "flash_recovery_only" -> "complete"
      [] OTHER -> "return"

\* what follows flash_recovery(...) in the entry function
AfterFlash ==
    CASE entry = "flash_process" -> "sideload_reboot"
      [] entry = "flash_recovery_only" -> "complete"
      [] OTHER -> "return"

\* the flash_recovery call, repeated while it reports failure
FlashRecoveryStep_retry ==
    /\ pc = "flash_recovery"
    /\ started' = Append(started, "flash_recovery")
    /\ calls' = Count("heimdall_flash")
    /\ IF ~heimdallOnPath
       THEN /\ flashRes' = "raised"
            /\ Except
            /\ UNCHANGED <<toolrun, shown>>
       ELSE \E run \in PipelineToolRuns :
              /\ toolrun' = run
              /\ shown' = flash_recovery_error(run.returncode, run.raw)
              /\ flashRes' = IF flash_recovery(run.returncode, run.raw)
                             THEN "ok" ELSE "failed"
              /\ pc' = IF flash_recovery(run.returncode, run.raw)
                       THEN AfterFlash ELSE "flash_recovery"
              /\ UNCHANGED result
    /\ UNCHANGED <<args, fixed, provv, hv, checks, env, localAdb, config, profile, fs, stdout,
                   gate, dl, hist>>

\* flash_recovery(str(recovery_img), text_widget); the value is not used
FlashRecoveryStep ==
    /\ pc = "flash_recovery"
    /\ started' = Append(started, "flash_recovery")
    /\ calls' = Count("heimdall_flash")
    /\ IF ~heimdallOnPath
       THEN /\ flashRes' = "raised"
            /\ Except
            /\ UNCHANGED <<toolrun, shown>>
       ELSE \E run \in PipelineToolRuns :
              /\ toolrun' = run
              /\ shown' = flash_recovery_error(run.returncode, run.raw)
              /\ flashRes' = IF flash_recovery(run.returncode, run.raw)
                             THEN "ok" ELSE "failed"
              /\ pc' = AfterFlash
              /\ UNCHANGED result
    /\ UNCHANGED <<args, fixed, provv, hv, checks, env, localAdb, config, profile, fs, stdout,
                   gate, dl, hist>>

\* sideload_zip going from the reboot straight to the sideload
SideloadReboot_no_wait ==
    /\ pc = "sideload_reboot"
    /\ started' = Append(started, "sideload_zip")
    /\ calls' = Count("reboot_recovery")
    /\ IF AdbPathExists
       THEN /\ pc' = "sideload_push"
            /\ UNCHANGED result
       ELSE Except
    /\ UNCHANGED <<args, fixed, aux, env, localAdb, config, profile, fs, stdout, gate,
                   toolrun, flashRes, dl, hist>>

\* sideload_zip: adb_command(['reboot', 'recovery'])
SideloadReboot ==
    /\ pc = "sideload_reboot"
    /\ started' = Append(started, "sideload_zip")
    /\ calls' = Count("reboot_recovery")
    /\ IF AdbPathExists
       THEN /\ pc' = "sideload_wait"
            /\ UNCHANGED result
       ELSE Except
    /\ UNCHANGED <<args, fixed, aux, env, localAdb, config, profile, fs, stdout, gate, toolrun,
                   flashRes, dl, hist>>

\* sideload_zip: adb_command(['wait-for-device'])
SideloadWait ==
    /\ pc = "sideload_wait"
    /\ calls' = Count("wait_for_device")
    /\ IF AdbPathExists
       THEN /\ pc' = "sideload_push"
            /\ UNCHANGED result
       ELSE Except
    /\ UNCHANGED <<args, fixed, aux, env, localAdb, config, profile, fs, stdout, gate, toolrun,
                   flashRes, dl, started, hist>>

\* flash_process calling install_apk without the `if apk_path:` test
AfterSideload_always_install == "install_apk"

\* what follows sideload_zip(...) in flash_process
AfterSideload == IF apk_path # "" THEN "install_apk" ELSE "complete"

\* sideload_zip: subprocess.run([ADB_NAME, 'sideload', zip_path])
SideloadPush ==
    /\ pc = "sideload_push"
    /\ calls' = Count("sideload")
    /\ IF adbOnPath
       THEN /\ pc' = AfterSideload
            /\ UNCHANGED result
       ELSE Except
    /\ UNCHANGED <<args, fixed, aux, env, localAdb, config, profile, fs, stdout, gate, toolrun,
                   flashRes, dl, started, hist>>

\* install_apk: subprocess.run([ADB_NAME, 'install', apk])
InstallApk ==
    /\ pc = "install_apk"
    /\ started' = Append(started, "install_apk")
    /\ calls' = Count("install")
    /\ IF adbOnPath
       THEN /\ pc' = "complete"
            /\ UNCHANGED result
       ELSE Except
    /\ UNCHANGED <<args, fixed, aux, env, localAdb, config, profile, fs, stdout, gate, toolrun,
                   flashRes, dl, hist>>

\* check_heimdall: `heimdall version`
CheckHeimdall ==
    /\ pc = "check_heimdall"
    /\ started' = Append(started, "check_heimdall")
    /\ calls' = Count("heimdall_version")
    /\ IF ~heimdallOnPath
       THEN /\ pc' = "done"
            /\ result' = "no_heimdall"
            /\ checks' = [checks EXCEPT !.version = "missing"]
       ELSE \E returncode \in ReturnCodes :
              /\ checks' = [checks EXCEPT !.version = Exit(returncode)]
              /\ IF returncode # 0
                 THEN /\ pc' = "done"
                      /\ result' = "no_heimdall"
                 ELSE /\ pc' = "detect_device"
                      /\ UNCHANGED result
    /\ UNCHANGED <<args, fixed, provv, hv, shown, env, localAdb, config, profile, fs,
                   stdout, gate, toolrun, flashRes, dl, hist>>

\* what follows detect_device(...) in the entry function
AfterDetect ==
    IF entry = "flash_twrp_gui" THEN "twrp_exists" ELSE "download_twrp"

\* detect_device going on after a failed `heimdall detect`
DetectDevice_no_return ==
    /\ pc = "detect_device"
    /\ started' = Append(started, "detect_device")
    /\ calls' = Count("heimdall_detect")
    /\ IF ~heimdallOnPath
       THEN /\ pc' = "done"
            /\ result' = "no_heimdall"
            /\ checks' = [checks EXCEPT !.detect = "missing"]
       ELSE \E returncode \in ReturnCodes :
              /\ checks' = [checks EXCEPT !.detect = Exit(returncode)]
              /\ pc' = AfterDetect
              /\ UNCHANGED result
    /\ UNCHANGED <<args, fixed, provv, hv, shown, env, localAdb, config, profile, fs,
                   stdout, gate, toolrun, flashRes, dl, hist>>

\* detect_device: `heimdall detect`
DetectDevice ==
    /\ pc = "detect_device"
    /\ started' = Append(started, "detect_device")
    /\ calls' = Count("heimdall_detect")
    /\ IF ~heimdallOnPath
       THEN /\ pc' = "done"
            /\ result' = "no_heimdall"
            /\ checks' = [checks EXCEPT !.detect = "missing"]
       ELSE \E returncode \in ReturnCodes :
              /\ checks' = [checks EXCEPT !.detect = Exit(returncode)]
              /\ IF returncode # 0
                 THEN /\ pc' = "done"
                      /\ result' = "no_download_mode"
                 ELSE /\ pc' = AfterDetect
                      /\ UNCHANGED result
    /\ UNCHANGED <<args, fixed, provv, hv, shown, env, localAdb, config, profile, fs,
                   stdout, gate, toolrun, flashRes, dl, hist>>

\* flash_twrp_gui: `if not TWRP_IMG.exists()`: show the error and return
TwrpExists ==
    /\ pc = "twrp_exists"
    /\ started' = Append(started, "twrp_exists")
    /\ IF fs[TWRP_IMG].present
       THEN /\ pc' = "flash_recovery"
            /\ UNCHANGED result
       ELSE /\ pc' = "done"
            /\ result' = "no_image"
    /\ UNCHANGED <<args, fixed, aux, env, localAdb, config, profile, fs, stdout, gate,
                   toolrun, flashRes, dl, calls, hist>>

\* download_twrp, called by auto_flash_j3
DownloadTwrp ==
    /\ pc = "download_twrp"
    /\ started' = Append(started, "download_twrp")
    /\ IF fs[TWRP_IMG].present
       THEN /\ dl' = [dl EXCEPT !["twrp"] = "skipped"]
            /\ firstFetch' = FirstOutcome(TWRP_URL, "skipped")
            /\ pc' = "flash_recovery"
            /\ UNCHANGED <<fs, netReq, calls, result>>
       ELSE Transfer(TWRP_URL, TWRP_IMG, "twrp", "get_twrp", "flash_recovery")
    /\ UNCHANGED <<args, fixed, aux, env, localAdb, config, profile, stdout, gate, toolrun, flashRes>>

\* download_magisk: a non-200 status is shown and None returned, no raise
DownloadMagisk ==
    /\ pc = "download_magisk"
    /\ started' = Append(started, "download_magisk")
    /\ IF fs[MAGISK_ZIP].present
       THEN /\ dl' = [dl EXCEPT !["magisk"] = "skipped"]
            /\ firstFetch' = FirstOutcome(MAGISK_URL, "skipped")
            /\ pc' = "done"
            /\ result' = "returned"
            /\ UNCHANGED <<fs, netReq, calls>>
       ELSE /\ calls' = Count("get_magisk")
            /\ netReq' = [netReq EXCEPT ![MAGISK_URL] = @ + 1]
            /\ \E o \in DownloadOutcomes :
                 /\ dl' = [dl EXCEPT !["magisk"] = o]
                 /\ firstFetch' = FirstOutcome(MAGISK_URL, o)
                 /\ fs' = IF o \in {"ok", "midstream"}
                          THEN [fs EXCEPT ![MAGISK_ZIP] = Written(MAGISK_URL, o)]
                          ELSE fs
                 /\ pc' = "done"
                 /\ result' = CASE o = "ok" -> "returned"
                                [] o = "status" -> "returned_none"
                                [] OTHER -> "error"
    /\ UNCHANGED <<args, fixed, aux, env, localAdb, config, profile, stdout, gate, toolrun, flashRes>>

\* push_magisk pushing without the MAGISK_ZIP.exists() test
MagiskExists_no_return ==
    /\ pc = "magisk_exists"
    /\ started' = Append(started, "magisk_exists")
    /\ pc' = "push_magisk"
    /\ UNCHANGED result
    /\ UNCHANGED <<args, fixed, aux, env, localAdb, config, profile, fs, stdout, gate,
                   toolrun, flashRes, dl, calls, hist>>

\* push_magisk: `if not MAGISK_ZIP.exists()`: show the error and return
MagiskExists ==
    /\ pc = "magisk_exists"
    /\ started' = Append(started, "magisk_exists")
    /\ IF fs[MAGISK_ZIP].present
       THEN /\ pc' = "push_magisk"
            /\ UNCHANGED result
       ELSE /\ pc' = "done"
            /\ result' = "no_magisk"
    /\ UNCHANGED <<args, fixed, aux, env, localAdb, config, profile, fs, stdout, gate,
                   toolrun, flashRes, dl, calls, hist>>

\* adb_command(['push', str(MAGISK_ZIP), '/sdcard/']); the exit code is not read
PushMagisk ==
    /\ pc = "push_magisk"
    /\ started' = Append(started, "push_magisk")
    /\ calls' = Count("push")
    /\ IF AdbPathExists
       THEN /\ pc' = "done"
            /\ result' = "returned"
       ELSE Except
    /\ UNCHANGED <<args, fixed, aux, env, localAdb, config, profile, fs, stdout, gate,
                   toolrun, flashRes, dl, hist>>

\* auto_flash_j3 returns after flash_recovery(img, text_widget)
Return ==
    /\ pc = "return"
    /\ pc' = "done"
    /\ result' = "returned"
    /\ UNCHANGED <<args, fixed, aux, env, localAdb, config, profile, fs, stdout, gate, toolrun,
                   flashRes, dl, calls, started, hist>>

\* log('Flashing complete.') / log('Recovery flash complete.')
Complete ==
    /\ pc = "complete"
    /\ started' = Append(started, "complete")
    /\ pc' = "done"
    /\ result' = "complete"
    /\ UNCHANGED <<args, fixed, aux, env, localAdb, config, profile, fs, stdout, gate, toolrun,
                   flashRes, dl, calls, hist>>

Next ==
    \/ \E e \in Entries, a \in ApkPaths : StartRun(e, a)
    \/ EnsureAdb
    \/ DeviceGate
    \/ ProfileResolve
    \/ DownloadRecovery
    \/ DownloadRom
    \/ FlashRecoveryStep
    \/ SideloadReboot
    \/ SideloadWait
    \/ SideloadPush
    \/ InstallApk
    \/ Complete
    \/ CheckHeimdall
    \/ DetectDevice
    \/ TwrpExists
    \/ DownloadTwrp
    \/ DownloadMagisk
    \/ MagiskExists
    \/ PushMagisk
    \/ Return

Spec == Init /\ [][Next]_vars

TypeOK ==
    /\ pc \in {"idle", "ensure_adb", "device_connected", "load_profile",
               "dl_recovery", "dl_rom", "flash_recovery", "sideload_reboot",
               "sideload_wait", "sideload_push", "install_apk", "complete",
               "check_heimdall", "detect_device", "download_twrp", "twrp_exists",
               "magisk_exists", "push_magisk",
               "download_magisk", "return", "ensure_heimdall", "eh_ask",
               "eh_apt", "eh_recheck", "tools_done", "done"}
    /\ entry \in Entries \cup {"install_tools"}
    /\ apk_path \in ApkPaths
    /\ runs \in 0..MaxRuns
    /\ profile \in {None} \cup Profiles
    /\ fs \in [Files -> FileStates]
    /\ gate \in {"unchecked", "connected", "absent"}
    /\ flashRes \in {"none", "ok", "failed", "raised"}
    /\ result \in {"none", "running", "no_device", "no_profile", "error",
                   "complete", "no_heimdall", "no_download_mode", "returned",
                   "no_image", "no_magisk", "returned_none"}
    /\ dl \in [Roles -> {"none", "skipped"} \cup DownloadOutcomes]
    /\ calls \in [Ops -> Nat]
    /\ props \in DeviceProps
    /\ wpc \in [Workers -> {"idle", "body", "exists", "request", "open",
                            "write", "flash", "finally"}]
    /\ wjob \in [Workers -> Jobs \cup {"none"}]
    /\ \A w \in Workers : wtodo[w] \in SeqsUpTo(URLs, 2)
    /\ visible \in BOOLEAN
    /\ checks \in [version : CheckResults, detect : CheckResults]

(* ---------------------------------------------------------------------- *)
(* check_device on every listing text up to MaxLen characters             *)
(* ---------------------------------------------------------------------- *)
InitListing ==
    /\ PipelineInit
    /\ config = NoConfig
    /\ props = NormalDevice
    /\ isWindows = FALSE
    /\ adbOnPath = TRUE
    /\ heimdallOnPath = TRUE
    /\ stdout \in Listings
    /\ toolrun = NoRun

\* check_device: ensure_adb finds adb; device_connected parses the listing
CheckDevice ==
    /\ pc = "idle"
    /\ gate = "unchecked"
    /\ calls' = Count("devices")
    /\ gate' = IF device_connected(stdout) THEN "connected" ELSE "absent"
    /\ UNCHANGED <<pc, args, fixed, aux, env, localAdb, config, profile, fs, stdout, toolrun,
                   flashRes, dl, started, result, hist>>

NextListing == CheckDevice

SpecListing == InitListing /\ [][NextListing]_vars

(* ---------------------------------------------------------------------- *)
(* flash_recovery on every tool run of up to MaxLines output lines        *)
(* ---------------------------------------------------------------------- *)
InitFlashRecovery ==
    /\ PipelineInit
    /\ config = NoConfig
    /\ props = NormalDevice
    /\ isWindows = FALSE
    /\ adbOnPath = TRUE
    /\ heimdallOnPath = TRUE
    /\ stdout = <<>>
    /\ toolrun \in [returncode : ReturnCodes, raw : ToolOutputs]

\* flash_recovery(img, text_widget) on the tool run `toolrun`
FlashRecoveryCall ==
    /\ pc = "idle"
    /\ flashRes = "none"
    /\ calls' = Count("heimdall_flash")
    /\ flashRes' = IF flash_recovery(toolrun.returncode, toolrun.raw)
                   THEN "ok" ELSE "failed"
    /\ shown' = flash_recovery_error(toolrun.returncode, toolrun.raw)
    /\ UNCHANGED <<pc, args, fixed, provv, hv, checks, env, localAdb, config, profile, fs, stdout, gate,
                   toolrun, dl, started, result, hist>>

NextFlashRecovery == FlashRecoveryCall

SpecFlashRecovery == InitFlashRecovery /\ [][NextFlashRecovery]_vars

(* ---------------------------------------------------------------------- *)
(* install_tools: ensure_adb, then ensure_heimdall                         *)
(* ---------------------------------------------------------------------- *)
InitTools ==
    /\ PipelineInit
    /\ config = NoConfig
    /\ props = NormalDevice
    /\ isWindows \in BOOLEAN
    /\ adbOnPath \in BOOLEAN
    /\ heimdallOnPath \in BOOLEAN
    /\ stdout = <<>>
    /\ toolrun = NoRun

\* ensure_heimdall: first check_tool(HEIMDALL_NAME)
EhCheck ==
    /\ pc = "ensure_heimdall"
    /\ started' = Append(started, "ensure_heimdall")
    /\ IF heimdallOnPath
       THEN /\ heimdallRet' = "true"
            /\ pc' = "tools_done"
       ELSE /\ pc' = IF ~isWindows THEN "eh_ask" ELSE "eh_recheck"
            /\ UNCHANGED heimdallRet
    /\ UNCHANGED <<args, fixed, provv, shown, checks, env, localAdb, config, profile, fs, stdout, gate,
                   toolrun, flashRes, dl, calls, result, hist, isWindows, answer,
                   apt>>

\* ensure_heimdall running apt whatever the user answered
EhAsk_auto_install ==
    /\ pc = "eh_ask"
    /\ \E a \in {"yes", "no"} :
         /\ answer' = a
         /\ pc' = "eh_apt"
    /\ UNCHANGED <<args, fixed, provv, shown, checks, env, localAdb, config, profile, fs, stdout, gate,
                   toolrun, flashRes, dl, calls, started, result, hist, isWindows,
                   apt, heimdallRet>>

\* ensure_heimdall: ask_yes_no('Install Heimdall', ...)
EhAsk ==
    /\ pc = "eh_ask"
    /\ \E a \in {"yes", "no"} :
         /\ answer' = a
         /\ pc' = IF a = "yes" THEN "eh_apt" ELSE "eh_recheck"
    /\ UNCHANGED <<args, fixed, provv, shown, checks, env, localAdb, config, profile, fs, stdout, gate,
                   toolrun, flashRes, dl, calls, started, result, hist, isWindows,
                   apt, heimdallRet>>

\* how `sudo apt install -y heimdall-flash` can end: subprocess.run raised
\* (caught and logged), the package was installed, it was not
AptOutcomes == {"raised", "installed", "not_installed"}

\* ensure_heimdall: subprocess.run(['sudo', 'apt', 'install', ...]) in try/except
EhApt ==
    /\ pc = "eh_apt"
    /\ calls' = Count("apt_install")
    /\ \E o \in AptOutcomes :
         /\ apt' = o
         /\ heimdallOnPath' = (o = "installed")
    /\ pc' = "eh_recheck"
    /\ UNCHANGED <<args, fixed, provv, shown, checks, adbOnPath, bootloaderLocked, localAdb, config,
                   profile, fs, stdout, gate, toolrun, flashRes, dl, started,
                   result, hist, isWindows, answer, heimdallRet>>

\* ensure_heimdall: second check_tool(HEIMDALL_NAME) and the return
EhRecheck ==
    /\ pc = "eh_recheck"
    /\ heimdallRet' = IF heimdallOnPath THEN "true" ELSE "false"
    /\ pc' = "tools_done"
    /\ UNCHANGED <<args, fixed, provv, shown, checks, env, localAdb, config, profile, fs, stdout, gate,
                   toolrun, flashRes, dl, calls, started, result, hist, isWindows,
                   answer, apt>>

\* install_tools: log('Tool installation complete.')
ToolsDone ==
    /\ pc = "tools_done"
    /\ pc' = "done"
    /\ result' = "returned"
    /\ UNCHANGED <<args, fixed, aux, env, localAdb, config, profile, fs, stdout, gate,
                   toolrun, flashRes, dl, calls, started, hist>>

NextTools ==
    \/ StartRun("install_tools", "")
    \/ EnsureAdb
    \/ EhCheck
    \/ EhAsk
    \/ EhApt
    \/ EhRecheck
    \/ ToolsDone

SpecTools == InitTools /\ [][NextTools]_vars

(* ---------------------------------------------------------------------- *)
(* The pipeline against devices reporting different model properties       *)
(* ---------------------------------------------------------------------- *)
InitDevice ==
    /\ PipelineInit
    /\ config = NoConfig
    /\ props \in DeviceProps
    /\ isWindows = FALSE
    /\ adbOnPath = TRUE
    /\ heimdallOnPath = TRUE
    /\ stdout = <<>>
    /\ toolrun = NoRun

SpecDevice == InitDevice /\ [][Next]_vars

(* ---------------------------------------------------------------------- *)
(* The front-end: every click on a start_* button spawns a worker thread   *)
(* ---------------------------------------------------------------------- *)
\* a device_config.json holding a profile for the J3
GuiConfigs == {c \in Configs : c.exists /\ c.valid /\ PROFILE_KEY \in DOMAIN c.data}

InitGui ==
    /\ PipelineInit
    /\ config \in GuiConfigs
    /\ props = NormalDevice
    /\ isWindows = FALSE
    /\ adbOnPath = TRUE
    /\ heimdallOnPath = TRUE
    /\ stdout = <<>>
    /\ toolrun = NoRun

\* everything the worker threads of this section leave alone
pipeline == <<pc, args, env, localAdb, profile, stdout, gate, toolrun, flashRes,
              dl, calls, started, result, hist, aux, props>>

\* the file the worker's current download writes
Dest(w) ==
    IF wjob[w] = "start_auto_flash" THEN TWRP_IMG ELSE CachePath(Head(wtodo[w]))

\* the worker has a download in flight: past the exists() test, before the
\* end of the `with open(dest, 'wb')` block
Fetching(w) == wpc[w] \in {"request", "open", "write"}

\* the worker returns from download_file / download_twrp
NextDownload(w) ==
    /\ wtodo' = [wtodo EXCEPT ![w] = Tail(@)]
    /\ wpc' = [wpc EXCEPT ![w] = IF Len(wtodo[w]) > 1 THEN "exists" ELSE "flash"]

\* start_*: show the progress bar, start a daemon thread running run()
Click(job) ==
    /\ \E w \in Workers :
         /\ wpc[w] = "idle"
         /\ \A v \in Workers : v < w => wpc[v] # "idle"
         /\ wpc' = [wpc EXCEPT ![w] = "body"]
         /\ wjob' = [wjob EXCEPT ![w] = job]
    /\ visible' = TRUE
    /\ UNCHANGED <<pipeline, config, fs, wtodo>>

\* run() up to the first download: a gate that returns or raises, or
\* load_profile reading device_config.json
WorkerBody(w) ==
    /\ wpc[w] = "body"
    /\ \/ wpc' = [wpc EXCEPT ![w] = "finally"] /\ UNCHANGED wtodo
       \/ /\ wjob[w] = "start_flash"
          /\ wtodo' = [wtodo EXCEPT ![w] = <<load_profile(config).recovery_url,
                                             load_profile(config).rom_url>>]
          /\ wpc' = [wpc EXCEPT ![w] = "exists"]
       \/ /\ wjob[w] = "start_auto_flash"
          /\ wtodo' = [wtodo EXCEPT ![w] = <<TWRP_URL>>]
          /\ wpc' = [wpc EXCEPT ![w] = "exists"]
       \/ /\ wjob[w] = "start_flash_recovery"
          /\ fs[TWRP_IMG].present
          /\ wpc' = [wpc EXCEPT ![w] = "flash"]
          /\ UNCHANGED wtodo
    /\ UNCHANGED <<pipeline, config, fs, wjob, visible>>

\* `if dest.exists(): return`
WorkerExists(w) ==
    /\ wpc[w] = "exists"
    /\ IF fs[Dest(w)].present
       THEN NextDownload(w)
       ELSE wpc' = [wpc EXCEPT ![w] = "request"] /\ UNCHANGED wtodo
    /\ UNCHANGED <<pipeline, config, fs, wjob, visible>>

\* requests.get(url, stream=True) and the status test
WorkerRequest(w) ==
    /\ wpc[w] = "request"
    /\ \E ok \in BOOLEAN :
         wpc' = [wpc EXCEPT ![w] = IF ok THEN "open" ELSE "finally"]
    /\ UNCHANGED <<pipeline, config, fs, wjob, wtodo, visible>>

\* open(dest, 'wb'): the file exists and is empty
WorkerOpen(w) ==
    /\ wpc[w] = "open"
    /\ fs' = [fs EXCEPT ![Dest(w)] = Written(Head(wtodo[w]), "midstream")]
    /\ wpc' = [wpc EXCEPT ![w] = "write"]
    /\ UNCHANGED <<pipeline, config, wjob, wtodo, visible>>

\* the chunk loop; with a second writer on the same file the content that
\* ends up on disk is either writer's
WorkerWrite(w) ==
    /\ wpc[w] = "write"
    /\ \E o \in {"ok", "midstream"} :
         /\ \E c \in IF \E v \in Workers \ {w} :
                          wpc[v] \in {"open", "write"} /\ Dest(v) = Dest(w)
                     THEN BOOLEAN ELSE {o = "ok"} :
              fs' = [fs EXCEPT ![Dest(w)] =
                        [present |-> TRUE, src |-> Head(wtodo[w]), complete |-> c]]
         /\ IF o = "ok"
            THEN NextDownload(w)
            ELSE wpc' = [wpc EXCEPT ![w] = "finally"] /\ UNCHANGED wtodo
    /\ UNCHANGED <<pipeline, config, wjob, visible>>

\* flash_recovery and what follows it in the entry function
WorkerFlash(w) ==
    /\ wpc[w] = "flash"
    /\ wpc' = [wpc EXCEPT ![w] = "finally"]
    /\ UNCHANGED <<pipeline, config, fs, wjob, wtodo, visible>>

\* the finally clause of run(): hide the progress bar; the thread ends
WorkerFinally(w) ==
    /\ wpc[w] = "finally"
    /\ visible' = FALSE
    /\ wpc' = [wpc EXCEPT ![w] = "idle"]
    /\ wjob' = [wjob EXCEPT ![w] = "none"]
    /\ wtodo' = [wtodo EXCEPT ![w] = <<>>]
    /\ UNCHANGED <<pipeline, config, fs>>

NextGui ==
    \/ \E job \in Jobs : Click(job)
    \/ \E w \in Workers : WorkerBody(w)
    \/ \E w \in Workers : WorkerExists(w)
    \/ \E w \in Workers : WorkerRequest(w)
    \/ \E w \in Workers : WorkerOpen(w)
    \/ \E w \in Workers : WorkerWrite(w)
    \/ \E w \in Workers : WorkerFlash(w)
    \/ \E w \in Workers : WorkerFinally(w)

SpecGui == InitGui /\ [][NextGui]_vars

(* ---------------------------------------------------------------------- *)
(* Properties                                                              *)
(* ---------------------------------------------------------------------- *)
Range(seq) == {seq[i] : i \in DOMAIN seq}

\* external invocations of the steps after the recovery flash
SideloadOps == {"reboot_recovery", "wait_for_device", "sideload"}

\* C1: a recovery flash classified as failed halts flash_process: neither
\* sideload_zip nor install_apk is executed afterwards in that run.
C1_FlashFailureHalts ==
    (entry = "flash_process" /\ flashRes = "failed") =>
        /\ "sideload_zip" \notin Range(started)
        /\ "install_apk" \notin Range(started)
        /\ \A op \in SideloadOps \cup {"install"} : calls[op] = 0

\* some output line of the tool carries the success marker
MarkerPrinted(raw) == \E i \in DOMAIN raw : Contains(raw[i], SUCCESS_MARKER)

\* C2: flash_recovery reports success exactly when the tool exited with status
\* 0 and its output contains 'RECOVERY upload successful'.
C2_SuccessIffExitZeroAndMarker ==
    flashRes \in {"ok", "failed"} =>
        (flashRes = "ok" <=>
            (toolrun.returncode = 0 /\ MarkerPrinted(toolrun.raw)))

\* exit status 0 without the marker was classified as failure
C2_Witness ==
    /\ flashRes = "failed"
    /\ toolrun.returncode = 0
    /\ toolrun.raw # <<>>
    /\ ~MarkerPrinted(toolrun.raw)

\* the destination the download step at pc is about to fetch
DestAtPc ==
    CASE pc = "dl_recovery" -> CachePath(profile.recovery_url)
      [] pc = "dl_rom" -> CachePath(profile.rom_url)
      [] pc = "download_twrp" -> TWRP_IMG
      [] pc = "download_magisk" -> MAGISK_ZIP

DownloadPcs == {"dl_recovery", "dl_rom", "download_twrp", "download_magisk"}

\* a download called on an existing destination issues no request and
\* leaves every file as it was
SkipsExisting ==
    (pc \in DownloadPcs /\ fs[DestAtPc].present) =>
        (netReq' = netReq /\ fs' = fs /\ calls' = calls)

\* a URL whose first fetch succeeded was requested exactly once
FetchedOnce == \A u \in URLs : firstFetch[u] = "ok" => netReq[u] = 1

\* C3: a download whose destination exists returns without a network request
\* and leaves the file unchanged; a URL whose first fetch succeeded is
\* transferred exactly once over any sequence of calls.
C3_FetchIdempotent == [][SkipsExisting]_vars /\ []FetchedOnce

\* a later run skipped the recovery image an earlier run had fetched
C3_Witness ==
    /\ runs = 2
    /\ dl["recovery"] = "skipped"
    /\ profile # None
    /\ firstFetch[profile.recovery_url] = "ok"
    /\ netReq[profile.recovery_url] = 1

\* number of line breaks before position p of text
BreaksBefore(text, p) == Cardinality({q \in 1..(p - 1) : text[q] = NL})

\* the lines of text (by number of preceding breaks) that are not blank
NonBlankLines(text) ==
    {BreaksBefore(text, p) : p \in {q \in DOMAIN text : ~IsSpace(text[q])}}

\* C4: device_connected is true exactly when the listing has a non-blank
\* line besides its header (its first non-blank line); header-only and empty
\* listings give false.
C4_ConnectedIffEntryLine ==
    gate # "unchecked" =>
        (gate = "connected" <=> Cardinality(NonBlankLines(stdout)) >= 2)

\* a header followed by one device entry was parsed as connected
C4_Witness ==
    /\ gate = "connected"
    /\ stdout = <<"H", NL, "D", TAB, "D">>

\* C5: when device_connected returns false the run halts at once: the gate
\* was checked exactly once and no profile lookup, download, flash, sideload
\* or install happens in that run.
C5_DeviceGateHalts ==
    (pc # "idle" /\ gate = "absent") =>
        /\ pc = "done"
        /\ result = "no_device"
        /\ calls["devices"] = 1
        /\ \A op \in Ops \ {"devices", "get_platform_tools"} : calls[op] = 0
        /\ profile = None

C5_Witness ==
    /\ entry = "flash_recovery_only"
    /\ gate = "absent"
    /\ pc = "done"

\* device_config.json is absent, or parses and has no entry for the model
ProfileMissing(c) ==
    \/ ~c.exists
    \/ c.valid /\ PROFILE_KEY \notin DOMAIN c.data

\* C6: with the profile file absent or lacking the model's entry,
\* load_profile returns None without raising and the run halts with no
\* download, flash, sideload or install.
C6_ProfileMissHalts ==
    (calls["load_profile"] = 1 /\ ProfileMissing(config)) =>
        /\ profile = None
        /\ pc = "done"
        /\ result = "no_profile"
        /\ \A op \in Ops \ {"devices", "get_platform_tools", "load_profile"} :
             calls[op] = 0

C6_Witness ==
    /\ calls["load_profile"] = 1
    /\ ~config.exists
    /\ result = "no_profile"

\* C7: with a locked bootloader the run halts before Acquire: no download is
\* attempted and the recovery-flash tool is never invoked.
C7_UnlockGateBlocks ==
    (entry \in {"flash_process", "flash_recovery_only"} /\ pc # "idle"
     /\ bootloaderLocked) =>
        /\ calls["get_recovery"] = 0
        /\ calls["get_rom"] = 0
        /\ calls["heimdall_flash"] = 0

DownloadFailures == {"status", "transport", "midstream"}

\* destination of the artifact `role` under the loaded profile
DestOf(role) ==
    IF role = "recovery" THEN CachePath(profile.recovery_url)
    ELSE CachePath(profile.rom_url)

\* C8: a failed download of the recovery image or ROM package raises and
\* halts the run before any flash, sideload or install; a non-success status
\* creates no destination file.
C8_AcquireFailureFatal ==
    \A role \in {"recovery", "rom"} :
        /\ dl[role] \in DownloadFailures =>
             /\ pc = "done"
             /\ result = "error"
             /\ calls["heimdall_flash"] = 0
             /\ \A op \in SideloadOps \cup {"install"} : calls[op] = 0
        /\ dl[role] = "status" => ~fs[DestOf(role)].present

\* the ROM download failed on its status after the recovery image was fetched
C8_Witness ==
    /\ dl["recovery"] = "ok"
    /\ dl["rom"] = "status"
    /\ result = "error"

\* position of each step in flash_process
Rank(step) ==
    CASE step = "ensure_adb" -> 1
      [] step = "device_connected" -> 2
      [] step = "load_profile" -> 3
      [] step = "download_recovery" -> 4
      [] step = "download_rom" -> 5
      [] step = "flash_recovery" -> 6
      [] step = "sideload_zip" -> 7
      [] step = "install_apk" -> 8
      [] step = "complete" -> 9
      [] OTHER -> 0

\* C9: the steps of one flash_process run start only in the order ensure_adb,
\* device_connected, load_profile, recovery download, ROM download,
\* flash_recovery, sideload_zip, install_apk, complete.
C9_StepsInOrder ==
    entry = "flash_process" =>
        \A i, j \in DOMAIN started :
            i < j => (0 < Rank(started[i]) /\ Rank(started[i]) < Rank(started[j]))

\* a run went through every step, the APK install included
C9_Witness ==
    /\ entry = "flash_process"
    /\ result = "complete"
    /\ Len(started) = 9

\* C10: within one run each download, the recovery-flash tool, the sideload
\* and the APK install are invoked at most once, whatever their outcomes.
C10_NoRetry == \A op \in Ops : calls[op] <= 1

\* the recovery flash failed and the run went on without repeating it
C10_Witness ==
    /\ flashRes = "failed"
    /\ pc = "done"
    /\ calls["heimdall_flash"] = 1


\* C11: 'Flashing complete.' / 'Recovery flash complete.' is logged only in
\* runs whose recovery flash was classified as successful.
C11_CompleteOnlyAfterSuccess ==
    result = "complete" => flashRes = "ok"

\* no step removes or rewrites a file that is present
KeepsFiles == \A f \in Files : fs[f].present => fs'[f] = fs[f]

\* C12: when a run halts at a failing step, every artifact file an earlier
\* step or run placed in the cache is still present and unchanged.
C12_FailureKeepsArtifacts == [][KeepsFiles]_vars

\* the ROM download failed and the recovery image fetched before it remains
C12_Witness ==
    /\ result = "error"
    /\ dl["recovery"] = "ok"
    /\ dl["rom"] \in DownloadFailures
    /\ fs[CachePath(profile.recovery_url)].complete


\* ensure_adb called with adb resolvable downloads and modifies nothing
ResolvedNoEffect ==
    (pc = "ensure_adb" /\ (adbOnPath \/ localAdb)) =>
        /\ localAdb' = localAdb
        /\ toolsZip' = toolsZip
        /\ fs' = fs
        /\ netReq' = netReq
        /\ calls' = calls

\* the platform tools are downloaded only when both lookups failed
ProvisionOnlyWhenMissing ==
    calls'["get_platform_tools"] > calls["get_platform_tools"] =>
        (~adbOnPath /\ ~localAdb)

\* C13: with adb on the search path, or else a bundled copy present,
\* ensure_adb returns without downloading, extracting or modifying any file;
\* provisioning is triggered only when both lookups fail.
C13_ResolveIdempotent == [][ResolvedNoEffect /\ ProvisionOnlyWhenMissing]_vars

\* a run resolved adb through the bundled copy alone, without provisioning
C13_Witness ==
    /\ ~adbOnPath
    /\ localAdb
    /\ pc = "device_connected"
    /\ prov = "none"
    /\ calls["get_platform_tools"] = 0

ProvisionFailures == ProvisionOutcomes \ {"ok"}

\* C14: provisioning is attempted at most once per ensure_adb call and its
\* failure is fatal: the run halts with no device check, download, flash or
\* sideload.
C14_ProvisionFailureFatal ==
    /\ calls["get_platform_tools"] <= 1
    /\ prov \in ProvisionFailures =>
         /\ pc = "done"
         /\ result = "error"
         /\ gate = "unchecked"
         /\ \A op \in Ops \ {"get_platform_tools"} : calls[op] = 0

\* the platform-tools download answered with a non-200 status
C14_Witness ==
    /\ prov = "status"
    /\ result = "error"
    /\ calls["get_platform_tools"] = 1


\* apt is run only from a state where heimdall is missing, the host is not
\* Windows and the user answered yes
AptOnlyOnConsent ==
    calls'["apt_install"] > calls["apt_install"] =>
        (~heimdallOnPath /\ ~isWindows /\ answer = "yes")

\* ensure_heimdall returns whether heimdall is found now, and never raises
ReturnsAvailability ==
    /\ calls["apt_install"] <= 1
    /\ heimdallRet # "none" => (heimdallRet = "true" <=> heimdallOnPath)
    /\ (entry = "install_tools" /\ pc \in {"tools_done", "done"}
        /\ prov \notin ProvisionFailures) =>
         /\ heimdallRet # "none"
         /\ result # "error"

\* C15: ensure_heimdall runs the package-manager install only when the tool
\* was not found, the host is not Windows and the user answered yes, at most
\* once per call; if the tool is still missing afterwards it returns False
\* instead of raising.
C15_HeimdallNeverAutoProvisioned ==
    [][AptOnlyOnConsent]_vars /\ []ReturnsAvailability

\* the install attempt raised and ensure_heimdall still returned False
C15_Witness ==
    /\ apt = "raised"
    /\ calls["apt_install"] = 1
    /\ heimdallRet = "false"
    /\ result = "returned"


\* some output line of the tool carries a known failure text, in any case
KnownFailure(raw) ==
    \E i \in DOMAIN raw :
        \/ Contains(lower(raw[i]), PROTOCOL_FAILED)
        \/ Contains(lower(raw[i]), NO_SESSION_END)

\* C16: whenever a recovery-flash run is classified as failed and its output
\* contains a known failure substring, the reported error is the output with
\* the hint appended; without such a substring it is the output unchanged.
C16_HintOnKnownFailure ==
    flashRes = "failed" =>
        /\ shown.called
        /\ shown.text = IF KnownFailure(toolrun.raw)
                        THEN output_text(toolrun.raw) \o HINT
                        ELSE output_text(toolrun.raw)


\* C17: within sideload_zip the commands are issued in the order
\* reboot-to-recovery, wait-for-device, sideload: each is started only after
\* the one before it was issued and has returned.
C17_SideloadOrder ==
    /\ calls["sideload"] <= calls["wait_for_device"]
    /\ calls["wait_for_device"] <= calls["reboot_recovery"]
    /\ pc = "sideload_wait" => calls["reboot_recovery"] = 1
    /\ pc = "sideload_push" => calls["wait_for_device"] = 1

\* the ROM package was sideloaded after the reboot and the wait
C17_Witness ==
    /\ calls["sideload"] = 1
    /\ calls["wait_for_device"] = 1
    /\ calls["reboot_recovery"] = 1
    /\ adbOnPath


\* sideload_zip has returned (its last command was started and did not raise)
SideloadReturned == calls["sideload"] = 1 /\ adbOnPath

\* C18: in a flash_process run the install command is issued exactly when an
\* APK path was supplied and the run reached the end of sideload_zip; with
\* no APK path it is never issued.
C18_ApkInstallOptional ==
    /\ calls["install"] >= 1 =>
         /\ entry = "flash_process"
         /\ apk_path # ""
         /\ SideloadReturned
    /\ (entry = "flash_process" /\ apk_path # "" /\ SideloadReturned
        /\ pc \in {"complete", "done"}) => calls["install"] = 1

\* a run with an APK path installed it after the sideload
C18_Witness ==
    /\ entry = "flash_process"
    /\ apk_path # ""
    /\ calls["install"] = 1
    /\ result = "complete"


\* the model a primary-then-secondary property query would detect
DetectedModel == IF props.primary # "" THEN props.primary ELSE props.secondary

\* C19: the profile is looked up under the model detected from the device,
\* the secondary property standing in for an empty primary one; with both
\* empty the step fails with NoDeviceDetected.
C19_ModelFallback ==
    (entry \in {"flash_process", "flash_recovery_only"}
     /\ gate = "connected" /\ pc # "load_profile") =>
        IF DetectedModel = ""
        THEN result = "no_device" /\ calls["load_profile"] = 0
        ELSE (config.exists /\ config.valid) =>
                 profile = Get(config.data, DetectedModel)


\* C20: runs are serialized: no two worker threads have a download of the
\* same file in flight at the same time.
C20_RunsSerialized ==
    \A v, w \in Workers :
        (Fetching(v) /\ Fetching(w) /\ Dest(v) = Dest(w)) => v = w


RecoveryOnlyFlows == {"auto_flash_j3", "flash_twrp_gui"}

\* C21: in auto_flash_j3 and flash_twrp_gui the flash tool is invoked only
\* after `heimdall version` and then `heimdall detect` ended with exit 0, in
\* that order, and only when the recovery image exists locally.
C21_FlashOnlyAfterChecks ==
    (entry \in RecoveryOnlyFlows /\ calls["heimdall_flash"] > 0) =>
        /\ checks.version = "ok"
        /\ checks.detect = "ok"
        /\ SubSeq(started, 1, 2) = <<"check_heimdall", "detect_device">>
        /\ started[Len(started)] = "flash_recovery"
        /\ fs[TWRP_IMG].present

\* each flow has flashed: after a download, and from a pre-existing image
C21_Witness ==
    /\ entry = "flash_twrp_gui"
    /\ calls["heimdall_flash"] > 0
    /\ runs = 2


\* the image file the run hands to flash_recovery
FlashedImage ==
    IF entry \in RecoveryOnlyFlows THEN TWRP_IMG
    ELSE CachePath(profile.recovery_url)

\* C22: every file handed to the flash tool or to sideload was written by a
\* download that ran to completion; a fetch that failed part-way never makes
\* a later run flash or sideload a truncated file.
C22_ArtifactsComplete ==
    /\ calls["heimdall_flash"] > 0 => fs[FlashedImage].complete
    /\ calls["sideload"] > 0 => fs[CachePath(profile.rom_url)].complete


\* the device-bridge commands of a run
BridgeOps == {"devices", "reboot_recovery", "wait_for_device", "sideload",
              "install"}

\* commands run as [ADB_NAME, ...]: the bare name, found only on the search path
BareNameOps == {"sideload", "install"}

\* C23: every device-bridge command issued after ensure_adb returned is issued
\* against a binary that can be located, the bundled platform-tools copy
\* included when adb is not on the search path.
C23_BridgeBinaryLocatable ==
    \A op \in BridgeOps :
        calls[op] > 0 =>
            IF op \in BareNameOps THEN adbOnPath ELSE AdbPathExists


\* the worker thread has been started and has not ended
Running(w) == wpc[w] # "idle"

\* C24: the progress bar is visible whenever a worker thread is running and
\* hidden once every worker thread has ended.
C24_BusyIndicator ==
    visible <=> \E w \in Workers : Running(w)


\* C25: push_magisk issues the push only with a device connected and the
\* Magisk zip on disk, and otherwise reports the error and pushes nothing;
\* download_magisk on a non-200 status returns None and creates no file.
C25_MagiskGated ==
    /\ calls["push"] > 0 => (gate = "connected" /\ fs[MAGISK_ZIP].present)
    /\ (entry = "push_magisk" /\ gate = "absent") =>
           (calls["push"] = 0 /\ result = "no_device")
    /\ (entry = "push_magisk" /\ gate = "connected"
        /\ ~fs[MAGISK_ZIP].present /\ pc = "done") =>
           (calls["push"] = 0 /\ result = "no_magisk")
    /\ (entry = "download_magisk" /\ dl["magisk"] = "status") =>
           (result = "returned_none" /\ ~fs[MAGISK_ZIP].present)

\* the zip a first run downloaded has been pushed by push_magisk
C25_Witness ==
    /\ entry = "push_magisk"
    /\ calls["push"] = 1
    /\ result = "returned"

====
